---------------------------- MODULE Spec2Model ----------------------------
(*
  Model of the memory-consolidation hooks of openclaw.

  Two handlers react to the session lifecycle event:
    * handleSessionReset       (src/src/hooks/memory-consolidation.ts), the
      durable-scheduling handler ("Strategy B"): it persists a one-shot cron
      job in the job store and wakes the scheduler;
    * spawnMemoryConsolidation (src/src/hooks/bundled/session-memory/handler.ts),
      the direct-gateway handler ("Strategy A"): it calls the agent gateway.

  Both are async functions.  Each is cut at its awaits: the code between two
  awaits runs without interleaving on the single JavaScript thread, and is
  one action here.  The calls into modules outside this slice (loadCronStore,
  saveCronStore, requestHeartbeatNow, callGateway) return or throw; which of
  the two is the environment's choice.

  Text is modelled as a sequence of tokens.  A token is either one of the
  placeholders "{sessionId}", "{sessionKey}", "{date}", or a piece of text
  without a placeholder in it.
*)
EXTENDS Integers, Sequences, FiniteSets, TLC

(* ------------------------------------------------------------------ *)
(* Optional values (TypeScript's `x?: T`): <<>> is undefined.          *)
(* ------------------------------------------------------------------ *)
None == <<>>
Some(x) == <<x>>
IsSome(o) == o # <<>>
Get(o) == o[1]

(* ------------------------------------------------------------------ *)
(* Bounds of the model.                                                 *)
(* ------------------------------------------------------------------ *)
\* Lifecycle events whose handlers may be in flight at the same time.
MaxInFlight == 2
\* Lifecycle events delivered in one behaviour.
MaxEvents == 2
\* Longest configured template of the prompt-rendering specification.
MaxTplLen == 3
\* Most messages of a request payload, and most times the stream function
\* hands one payload to onPayload.
MaxMsgs == 3
MaxEmit == 2
\* Most probeFeishu calls in flight at once, most calls in all, and the
\* number of clock steps.
MaxProbing == 2
MaxProbes == 2
MaxTicks == 3

Slots == 1..MaxInFlight
\* Readings of the host clock (Date.now()).
Times == {1000, 2000}

(* ------------------------------------------------------------------ *)
(* Prompt rendering.                                                    *)
(* ------------------------------------------------------------------ *)
PH_SESSION_ID == "{sessionId}"
PH_SESSION_KEY == "{sessionKey}"
PH_DATE == "{date}"

\* memory-consolidation.ts:34-42.  The template names {sessionId} twice and
\* {date} once; the text between them holds no placeholder.
DEFAULT_PROMPT ==
  << "task: session ", PH_SESSION_ID, " ended and was reset. 1. read sessions/",
     PH_SESSION_ID, ".jsonl 2. extract 3. write memory/", PH_DATE,
     ".md 4. update MEMORY.md" >>

\* A pattern without the g flag: the first occurrence alone is replaced.
ReplaceAll_FirstOnly(text, placeholder, value) ==
  [i \in DOMAIN text |->
     IF text[i] = placeholder /\ \A k \in 1..(i - 1) : text[k] # placeholder
       THEN value ELSE text[i]]

\* String.prototype.replace with a string as its second argument: the text
\* put in place of a match is the argument with its "$" patterns expanded,
\* "$&" to the matched text and "$$" to "$".
ReplacementText(value, matched) ==
  CASE value = "$&" -> matched
    [] value = "$$" -> "$"
    [] OTHER -> value

\* String.prototype.replace with a global pattern: every occurrence of the
\* placeholder token is replaced, every other token is kept.
ReplaceAll(text, placeholder, value) ==
  [i \in DOMAIN text |->
     IF text[i] = placeholder THEN ReplacementText(value, placeholder) ELSE text[i]]

\* memory-consolidation.ts:76: consolidationConfig.prompt || DEFAULT_PROMPT
\* (an undefined and an empty prompt are both falsy).
PromptTemplate(prompt) ==
  IF IsSome(prompt) /\ Get(prompt) # <<>> THEN Get(prompt) ELSE DEFAULT_PROMPT

\* memory-consolidation.ts:77-80: three replace calls, one after the other.
RenderPrompt(promptTemplate, sessionId, sessionKey, today) ==
  ReplaceAll(ReplaceAll(ReplaceAll(promptTemplate, PH_SESSION_ID, sessionId),
                        PH_SESSION_KEY, sessionKey),
             PH_DATE, today)

(* ------------------------------------------------------------------ *)
(* Data: configurations, events, jobs.                                  *)
(* ------------------------------------------------------------------ *)
\* A configured template that names all three placeholders.
CustomPrompt == << "S=", PH_SESSION_ID, " K=", PH_SESSION_KEY, " D=", PH_DATE >>

\* cfg.memory?.consolidation (MemoryConsolidationConfig, lines 18-32):
\* undefined, or a record of optional fields.
MkConsolidation(enabled, prompt, timeoutSeconds) ==
  [enabled |-> enabled, prompt |-> prompt, timeoutSeconds |-> timeoutSeconds]

Configs ==
  { None,
    Some(MkConsolidation(Some(FALSE), Some(CustomPrompt), None)),
    Some(MkConsolidation(Some(TRUE), None, None)),
    Some(MkConsolidation(Some(TRUE), Some(CustomPrompt), Some(60))) }

\* consolidationConfig?.enabled, as a truth value (line 59).
ConfigEnabled(c) ==
  IsSome(c) /\ IsSome(Get(c).enabled) /\ Get(Get(c).enabled)

\* Session ids of finished sessions, and the two ids the handlers test for.
SessionIds == {"s1", "s2"}
EmptyId == ""
UnknownId == "unknown"
SessionFile(sid) == <<"/sessions/", sid, ".jsonl">>
NoFile == <<>>

MkEntry(sessionId, sessionFile) ==
  [sessionId |-> sessionId, sessionFile |-> sessionFile]

\* context.previousSessionEntry: absent, without an id, with the id "unknown",
\* without a transcript file, or the entry of a finished session.
PrevEntries ==
  { None,
    Some(MkEntry(EmptyId, SessionFile("s1"))),
    Some(MkEntry(UnknownId, SessionFile("s1"))),
    Some(MkEntry("s1", NoFile)) }
  \cup { Some(MkEntry(sid, SessionFile(sid))) : sid \in SessionIds }

\* context.sessionEntry: the entry of the session that replaces the old one.
NewEntry == Some(MkEntry("n1", SessionFile("n1")))

\* The contexts of the events: every previous entry without a
\* context.sessionEntry, and an absent previous entry with one.
Contexts ==
  { [previousSessionEntry |-> p, sessionEntry |-> None] : p \in PrevEntries }
  \cup { [previousSessionEntry |-> None, sessionEntry |-> NewEntry] }

SessionKeys == { "agent:main:main" }
Dates == { "2024-06-01" }

MkEvent(action, sessionKey, context) ==
  [type |-> "command", action |-> action, sessionKey |-> sessionKey, context |-> context]

Events ==
  { MkEvent(a, k, c) : a \in {"new", "reset"}, k \in SessionKeys, c \in Contexts }

\* loadCronStore (cron/store.js, outside this slice): the persisted job
\* collection as it is when the call returns.
LoadCronStore(persisted) == persisted

\* saveCronStore (cron/store.js, outside this slice): the collection passed
\* replaces the persisted one as a whole.
SaveCronStore(persisted, jobs) == jobs

\* A failing write that has already emptied the file.
SaveCronStoreThrows_Truncated(persisted, jobs) == <<>>

\* saveCronStore throwing (disk or serialization error): the persisted
\* collection is the one before the call; the spec's "no job silently lost".
SaveCronStoreThrows(persisted, jobs) == persisted

\* memory-consolidation.ts:113.
JobId(sessionId) == <<"memory-consolidation-", sessionId>>

\* A job of another writer of the store.
OtherJob ==
  [id |-> <<"daily-report">>, enabled |-> TRUE, createdAtMs |-> 0, updatedAtMs |-> 0,
   schedule |-> [kind |-> "cron", at |-> <<"iso", 0>>], sessionTarget |-> "main",
   wakeMode |-> "next-heartbeat",
   payload |-> [kind |-> "systemEvent", message |-> <<"report">>, timeoutSeconds |-> 0],
   delivery |-> [mode |-> "none"], state |-> [nextRunAtMs |-> 0]]

\* A job that waits for the scheduler's next tick and whose first run lies
\* after its creation.
BuildJob_Deferred(sessionId, prompt, timeoutSeconds, now) ==
  [id |-> JobId(sessionId), enabled |-> TRUE, createdAtMs |-> now, updatedAtMs |-> now,
   schedule |-> [kind |-> "at", at |-> <<"iso", now>>], sessionTarget |-> "isolated",
   wakeMode |-> "next-heartbeat",
   payload |-> [kind |-> "agentTurn", message |-> prompt, timeoutSeconds |-> timeoutSeconds],
   delivery |-> [mode |-> "announce"], state |-> [nextRunAtMs |-> now + 1]]

\* memory-consolidation.ts:119-143 (the job's display name is left out).
BuildJob(sessionId, prompt, timeoutSeconds, now) ==
  [id |-> JobId(sessionId), enabled |-> TRUE, createdAtMs |-> now, updatedAtMs |-> now,
   schedule |-> [kind |-> "at", at |-> <<"iso", now>>], sessionTarget |-> "isolated",
   wakeMode |-> "now",
   payload |-> [kind |-> "agentTurn", message |-> prompt, timeoutSeconds |-> timeoutSeconds],
   delivery |-> [mode |-> "announce"], state |-> [nextRunAtMs |-> now]]

\* The filter left out: the loaded jobs are kept as they are.
FilterJobs_KeepAll(jobs, jobId) == jobs

\* A filter that drops every consolidation job, whatever its session.
FilterJobs_AllConsolidation(jobs, jobId) ==
  SelectSeq(jobs, LAMBDA j : j.id[1] # "memory-consolidation-")

\* memory-consolidation.ts:117.
FilterJobs(jobs, jobId) == SelectSeq(jobs, LAMBDA j : j.id # jobId)

\* memory-consolidation.ts:117-145: remove the session's job, append the new one.
UpsertJob(jobs, job) == Append(FilterJobs(jobs, job.id), job)

(* ------------------------------------------------------------------ *)
(* The direct-gateway handler's prompt and request.                     *)
(* ------------------------------------------------------------------ *)
\* handler.ts:21-67: the task names the session file three times and the
\* date once; the session key is accepted and not used.
buildConsolidationPrompt(sessionFile, sessionKey, date) ==
  << "# Memory Consolidation Task ... 1. Read the session log at: ", sessionFile,
     " ... wc -c ", sessionFile, " ... tail -300 ", sessionFile,
     " ... memory/", date, ".md ... silent background task." >>

\* A request without a time limit: callGateway waits as long as it takes.
GatewayRequest_NoTimeout(sessionFile, previousSessionKey, today, keyUuid, idemUuid) ==
  [method |-> "agent",
   params |-> [message |-> buildConsolidationPrompt(sessionFile, previousSessionKey, today),
               sessionKey |-> <<"agent:", <<"agentIdOf", previousSessionKey>>,
                                ":subagent:memory-consolidation:", keyUuid>>,
               deliver |-> FALSE,
               idempotencyKey |-> idemUuid],
   timeoutMs |-> 0]

\* A session key built from the previous session's file instead of a random
\* UUID, and one UUID used for nothing but the idempotency key.
GatewayRequest_KeyOfSession(sessionFile, previousSessionKey, today, keyUuid, idemUuid) ==
  [method |-> "agent",
   params |-> [message |-> buildConsolidationPrompt(sessionFile, previousSessionKey, today),
               sessionKey |-> <<"agent:", <<"agentIdOf", previousSessionKey>>,
                                ":subagent:memory-consolidation:", sessionFile>>,
               deliver |-> FALSE,
               idempotencyKey |-> idemUuid],
   timeoutMs |-> 600000]

\* handler.ts:98-102 and 120-129.  keyUuid and idemUuid are the results of
\* the two crypto.randomUUID() calls (lines 102 and 126).
GatewayRequest(sessionFile, previousSessionKey, today, keyUuid, idemUuid) ==
  [method |-> "agent",
   params |-> [message |-> buildConsolidationPrompt(sessionFile, previousSessionKey, today),
               sessionKey |-> <<"agent:", <<"agentIdOf", previousSessionKey>>,
                                ":subagent:memory-consolidation:", keyUuid>>,
               deliver |-> FALSE,
               idempotencyKey |-> idemUuid],
   timeoutMs |-> 600000]

\* callGateway (gateway/call.js, outside this slice): a call with a positive
\* timeoutMs is abandoned, and throws, when that time has passed without a
\* response.
TimerArmed(request) == request.timeoutMs > 0

(* ------------------------------------------------------------------ *)
(* State.                                                               *)
(* ------------------------------------------------------------------ *)
VARIABLES
  cfg,      \* what loadConfig().memory?.consolidation returns now
  store,    \* the persisted job collection (store.jobs of the cron store file)
  nEvents,  \* lifecycle events delivered so far
  ev,       \* per slot: the event whose handlers are in flight, or None
  pcB,      \* per slot: where handleSessionReset is
  pcA,      \* per slot: where spawnMemoryConsolidation is
  loc,      \* per slot: handleSessionReset's locals across its awaits
  saves,    \* per slot: saveCronStore calls issued by the invocation
  saved,    \* per slot: the invocation's saveCronStore call has returned
  wakes,    \* per slot: requestHeartbeatNow calls of the invocation
  fault,    \* per slot: the call of handleSessionReset that threw, or "none"
  errB,     \* per slot: "Failed to schedule" lines logged (console.error)
  gw,       \* per slot: the gateway requests issued by the invocation
  errA,     \* per slot: "Failed to spawn" lines logged (log.error)
  rIn,      \* prompt rendering alone: the configured prompt and the values
  rOut,     \* prompt rendering alone: the rendered prompt, once computed
  payload,        \* the request payload object the stream function builds
  payload0,       \* that payload as it was built
  prevOnPayload,  \* whether the caller's options carry an onPayload
  prevSeen,       \* the payloads the caller's onPayload was called with
  nEmit,          \* calls of options.onPayload by the stream function
  probeCache,     \* probe.ts:12: cache key -> entry, None where there is none
  clock,          \* what Date.now() returns
  nTicks,         \* steps the clock has made
  pPc,            \* per call slot: where probeFeishu is
  pCreds,         \* per call slot: the creds argument
  pResult,        \* per call slot: the value the promise resolved to
  nProbes,        \* probeFeishu calls so far
  apiCalls,       \* requests to /open-apis/bot/v3/info so far
  storedAt        \* cache key -> clock of the probe that stored the entry

hookVars == <<cfg, store, nEvents, ev, pcB, pcA, loc, saves, saved, wakes, fault, errB, gw, errA>>
\* The variables of the specifications of single functions.
renderVars == <<rIn, rOut>>
streamVars == <<payload, payload0, prevOnPayload, prevSeen, nEmit>>
probeVars == <<probeCache, clock, nTicks, pPc, pCreds, pResult, nProbes, apiCalls, storedAt>>
pureVars == <<renderVars, streamVars, probeVars>>
vars == <<hookVars, pureVars>>

\* handleSessionReset's locals that live across its awaits: sessionId (line
\* 70), promptTemplate (76), prompt (77), timeoutSeconds (89), and of
\* scheduleConsolidationJob the loaded store.jobs (111) and store.jobs as
\* passed to saveCronStore (146).
NoLocals ==
  [sessionId |-> "", promptTemplate |-> <<>>, prompt |-> <<>>, timeoutSeconds |-> 0,
   loaded |-> <<>>, jobs |-> <<>>]

\* The inputs of one rendering: consolidationConfig.prompt, and the values.
NoRenderInput == [prompt |-> None, sessionId |-> "", sessionKey |-> "", date |-> ""]

TerminalB == {"disabled", "noprior", "dispatched", "failed", "threw"}
TerminalA == {"ignored", "noprior", "dispatched", "failed", "threw"}

\* The store holds the jobs of other writers, if any.
HookInit ==
  /\ cfg \in Configs
  /\ store \in {<<>>, <<OtherJob>>}
  /\ nEvents = 0
  /\ ev = [e \in Slots |-> None]
  /\ pcB = [e \in Slots |-> "idle"]
  /\ pcA = [e \in Slots |-> "idle"]
  /\ loc = [e \in Slots |-> NoLocals]
  /\ saves = [e \in Slots |-> 0]
  /\ saved = [e \in Slots |-> FALSE]
  /\ wakes = [e \in Slots |-> 0]
  /\ fault = [e \in Slots |-> "none"]
  /\ errB = [e \in Slots |-> 0]
  /\ gw = [e \in Slots |-> <<>>]
  /\ errA = [e \in Slots |-> 0]

(* ------------------------------------------------------------------ *)
(* probeFeishu (extensions/feishu/src/probe.ts): data.  An app id or    *)
(* secret is a string, here a sequence of characters, so that the cache *)
(* key is their concatenation around ":" as in the code.                *)
(* ------------------------------------------------------------------ *)
\* probe.ts:4: 5 * 60 * 1000.
PROBE_CACHE_TTL_MS == 300000

\* Date.now() moves on in steps of half the time to live.
TickMs == 150000

ProbeSlots == 1..MaxProbing

\* The creds argument: undefined, with an empty appId, with an empty
\* appSecret, or complete.  The first two complete ones differ and have the
\* same concatenation "a:b:c".
MkCreds(appId, appSecret) == [appId |-> appId, appSecret |-> appSecret]
CompleteCreds ==
  { MkCreds(<<"a">>, <<"b", ":", "c">>), MkCreds(<<"a", ":", "b">>, <<"c">>),
    MkCreds(<<"x">>, <<"y">>) }
ProbeCreds ==
  {None, Some(MkCreds(<<>>, <<"y">>)), Some(MkCreds(<<"x">>, <<>>))}
    \cup { Some(c) : c \in CompleteCreds }

\* probe.ts:22: `${creds.appId}:${creds.appSecret}`.
CacheKey(creds) == creds.appId \o <<":">> \o creds.appSecret
CacheKeys == { CacheKey(c) : c \in CompleteCreds }

\* No probe has been made: the module's Map is empty (probe.ts:12).
ProbeIdle ==
  /\ probeCache = [k \in CacheKeys |-> None]
  /\ clock = 0
  /\ nTicks = 0
  /\ pPc = [p \in ProbeSlots |-> "idle"]
  /\ pCreds = [p \in ProbeSlots |-> None]
  /\ pResult = [p \in ProbeSlots |-> None]
  /\ nProbes = 0
  /\ apiCalls = 0
  /\ storedAt = [k \in CacheKeys |-> 0]

\* No stream function has been called.
StreamIdle ==
  /\ payload = None
  /\ payload0 = None
  /\ prevOnPayload = FALSE
  /\ prevSeen = <<>>
  /\ nEmit = 0

Init ==
  /\ HookInit
  /\ rIn = NoRenderInput
  /\ rOut = None
  /\ StreamIdle
  /\ ProbeIdle

(* ------------------------------------------------------------------ *)
(* The environment: events arrive, the configuration changes.           *)
(* ------------------------------------------------------------------ *)
FreeSlots == { e \in Slots : ev[e] = None }
InFlight == Slots \ FreeSlots

\* The hook runner delivers one event to both handlers: handleSessionReset is
\* registered for command:new and command:reset (memory-consolidation.ts:48-52),
\* the session-memory hook for command:new.  Slots are taken lowest first.
Deliver(e, event) ==
  /\ e \in FreeSlots
  /\ \A f \in FreeSlots : e <= f
  /\ nEvents < MaxEvents
  /\ nEvents' = nEvents + 1
  /\ ev' = [ev EXCEPT ![e] = Some(event)]
  /\ pcB' = [pcB EXCEPT ![e] = "start"]
  /\ pcA' = [pcA EXCEPT ![e] = "start"]
  /\ UNCHANGED <<cfg, store, loc, saves, saved, wakes, fault, errB, gw, errA, pureVars>>

\* Events may overlap: the handlers are async and a second reset may arrive
\* while the first one's handlers wait for the store or the gateway.
Trigger(e) == \E event \in Events : Deliver(e, event)

\* One event at a time: the next is delivered when no handler is in flight.
TriggerSeq(e) == InFlight = {} /\ \E event \in Events : Deliver(e, event)

\* The configuration file is edited between (or during) resets.
SetConfig ==
  /\ \E c \in Configs \ {cfg} : cfg' = c
  /\ UNCHANGED <<store, nEvents, ev, pcB, pcA, loc, saves, saved, wakes, fault, errB, gw, errA, pureVars>>

\* Both handlers of the slot's event have returned: the slot is free again.
Retire(e) ==
  /\ pcB[e] \in TerminalB
  /\ pcA[e] \in TerminalA
  /\ ev' = [ev EXCEPT ![e] = None]
  /\ pcB' = [pcB EXCEPT ![e] = "idle"]
  /\ pcA' = [pcA EXCEPT ![e] = "idle"]
  /\ loc' = [loc EXCEPT ![e] = NoLocals]
  /\ saves' = [saves EXCEPT ![e] = 0]
  /\ saved' = [saved EXCEPT ![e] = FALSE]
  /\ wakes' = [wakes EXCEPT ![e] = 0]
  /\ fault' = [fault EXCEPT ![e] = "none"]
  /\ errB' = [errB EXCEPT ![e] = 0]
  /\ gw' = [gw EXCEPT ![e] = <<>>]
  /\ errA' = [errA EXCEPT ![e] = 0]
  /\ UNCHANGED <<cfg, store, nEvents, pureVars>>

(* ------------------------------------------------------------------ *)
(* handleSessionReset (memory-consolidation.ts:54-100).                 *)
(* ------------------------------------------------------------------ *)
\* Line 65: !previousSessionEntry?.sessionId (an absent entry and an empty
\* id are falsy; every other string is truthy).
HasSessionId(entry) == IsSome(entry) /\ Get(entry).sessionId # ""

\* Line 89: consolidationConfig.timeoutSeconds ?? 120.
TimeoutSeconds(c) == IF IsSome(c.timeoutSeconds) THEN Get(c.timeoutSeconds) ELSE 120

\* No catch: the error leaves the handler unlogged.
CatchB_Rethrow == [pc |-> "threw", logged |-> 0]

\* A catch that starts the scheduling again.
CatchB_Retry == [pc |-> "loading", logged |-> 1]

\* Lines 94-99: the catch of the try that holds scheduleConsolidationJob and
\* requestHeartbeatNow: the error is logged and the handler returns.
CatchB == [pc |-> "failed", logged |-> 1]

\* The wake signal in a finally: sent whether or not the scheduling threw.
WakeReached_Always(scheduleReturned) == TRUE

\* Lines 82-93: requestHeartbeatNow follows the awaited
\* scheduleConsolidationJob in the try block: it is reached when the call
\* returned, and skipped when it threw.
WakeReached(scheduleReturned) == scheduleReturned

\* A configuration read once and for all: consolidation on, defaults.
LoadConfig_Fixed == Some(MkConsolidation(Some(TRUE), None, None))

\* Lines 55-56: loadConfig() and cfg.memory?.consolidation, evaluated in the
\* handler's body: the configuration as it is when the event is handled.
LoadConfig == cfg

\* Lines 55-80 and the call of line 83 up to the await of loadCronStore
\* (line 111).
B_Start(e) ==
  /\ pcB[e] = "start"
  /\ LET event == Get(ev[e])
         consolidationConfig == LoadConfig
         previousSessionEntry == event.context.previousSessionEntry
     IN IF ~ConfigEnabled(consolidationConfig)
          THEN /\ pcB' = [pcB EXCEPT ![e] = "disabled"]
               /\ loc' = loc
          ELSE IF ~HasSessionId(previousSessionEntry)
          THEN /\ pcB' = [pcB EXCEPT ![e] = "noprior"]
               /\ loc' = loc
          ELSE \E today \in Dates :
               LET sessionId == Get(previousSessionEntry).sessionId
                   promptTemplate == PromptTemplate(Get(consolidationConfig).prompt)
                   prompt == RenderPrompt(promptTemplate, sessionId, event.sessionKey, today)
               IN /\ loc' = [loc EXCEPT ![e] =
                              [sessionId |-> sessionId, promptTemplate |-> promptTemplate,
                               prompt |-> prompt,
                               timeoutSeconds |-> TimeoutSeconds(Get(consolidationConfig)),
                               loaded |-> <<>>, jobs |-> <<>>]]
                  /\ pcB' = [pcB EXCEPT ![e] = "loading"]
  /\ UNCHANGED <<cfg, store, nEvents, ev, pcA, saves, saved, wakes, fault, errB, gw, errA, pureVars>>

\* Lines 111-146: loadCronStore returns the persisted jobs or throws; on
\* return the job is built, the session's old job filtered out, the new one
\* pushed, and saveCronStore called.
B_Load(e) ==
  /\ pcB[e] = "loading"
  /\ \E loadOk \in BOOLEAN :
       IF loadOk
         THEN \E now \in Times :
              /\ loc' = [loc EXCEPT ![e].loaded = LoadCronStore(store),
                                     ![e].jobs =
                          UpsertJob(LoadCronStore(store), BuildJob(loc[e].sessionId, loc[e].prompt,
                                                    loc[e].timeoutSeconds, now))]
              /\ saves' = [saves EXCEPT ![e] = @ + 1]
              /\ pcB' = [pcB EXCEPT ![e] = "saving"]
              /\ UNCHANGED <<fault, errB>>
         ELSE /\ fault' = [fault EXCEPT ![e] = "load"]
              /\ errB' = [errB EXCEPT ![e] = @ + CatchB.logged]
              /\ pcB' = [pcB EXCEPT ![e] = CatchB.pc]
              /\ UNCHANGED <<loc, saves>>
  /\ UNCHANGED <<cfg, store, nEvents, ev, pcA, saved, wakes, gw, errA, pureVars>>

\* Lines 146-148 and 91-99: saveCronStore writes the collection or throws;
\* after a write the scheduler is woken (line 93), and a throw of either call
\* lands in the catch.
B_Save(e) ==
  /\ pcB[e] = "saving"
  /\ \E saveOk \in BOOLEAN, wakeOk \in BOOLEAN :
       LET reached == WakeReached(saveOk)
           threw == ~saveOk \/ (reached /\ ~wakeOk)
       IN /\ store' = IF saveOk THEN SaveCronStore(store, loc[e].jobs)
                              ELSE SaveCronStoreThrows(store, loc[e].jobs)
          /\ saved' = [saved EXCEPT ![e] = saveOk]
          /\ wakes' = [wakes EXCEPT ![e] = IF reached THEN @ + 1 ELSE @]
          /\ IF threw
               THEN /\ fault' = [fault EXCEPT ![e] = IF saveOk THEN "wake" ELSE "save"]
                    /\ errB' = [errB EXCEPT ![e] = @ + CatchB.logged]
                    /\ pcB' = [pcB EXCEPT ![e] = CatchB.pc]
               ELSE /\ pcB' = [pcB EXCEPT ![e] = "dispatched"]
                    /\ UNCHANGED <<fault, errB>>
  /\ UNCHANGED <<cfg, nEvents, ev, pcA, loc, saves, gw, errA, pureVars>>

(* ------------------------------------------------------------------ *)
(* spawnMemoryConsolidation (session-memory/handler.ts:73-143).         *)
(* ------------------------------------------------------------------ *)
\* Line 83: context.previousSessionEntry || context.sessionEntry || {}
\* (an entry object is truthy whatever its fields hold).
SessionEntryOf(context) ==
  IF IsSome(context.previousSessionEntry) THEN context.previousSessionEntry
  ELSE context.sessionEntry

\* Line 87: (sessionEntry.sessionId as string) || "unknown".
SessionIdOf(entry) ==
  IF IsSome(entry) /\ Get(entry).sessionId # "" THEN Get(entry).sessionId ELSE UnknownId

\* Line 88: (sessionEntry.sessionFile as string) || "".
SessionFileOf(entry) == IF IsSome(entry) THEN Get(entry).sessionFile ELSE NoFile

\* Lines 132-142: the catch of the handler's try: log.error, then return.
CatchA == [pc |-> "failed", logged |-> 1]

\* crypto.randomUUID() (handler.ts:102, 126): a value no other call returns.
\* The value is named by the call that drew it: the handler's invocation (the
\* events delivered when it runs, and its slot) and the line of the call.
RandomUUID(e, line) == <<"uuid", nEvents, e, line>>

\* Lines 75-129, up to the await of callGateway.
A_Start(e) ==
  /\ pcA[e] = "start"
  /\ LET event == Get(ev[e])
         sessionEntry == SessionEntryOf(event.context)
         sessionId == SessionIdOf(sessionEntry)
         sessionFile == SessionFileOf(sessionEntry)
     IN IF event.type # "command" \/ event.action # "new"
          THEN /\ pcA' = [pcA EXCEPT ![e] = "ignored"]
               /\ gw' = gw
          ELSE IF sessionId = UnknownId \/ sessionFile = NoFile
          THEN /\ pcA' = [pcA EXCEPT ![e] = "noprior"]
               /\ gw' = gw
          ELSE \E today \in Dates :
               /\ gw' = [gw EXCEPT ![e] =
                           Append(@, GatewayRequest(sessionFile, event.sessionKey, today,
                                                    RandomUUID(e, 102), RandomUUID(e, 126)))]
               /\ pcA' = [pcA EXCEPT ![e] = "calling"]
  /\ UNCHANGED <<cfg, store, nEvents, ev, pcB, loc, saves, saved, wakes, fault, errB, errA, pureVars>>

\* Lines 120-142: the gateway responds: callGateway returns (line 131), or
\* throws the gateway's error (lines 132-142).
A_GatewayReply(e) ==
  /\ pcA[e] = "calling"
  /\ \E callOk \in BOOLEAN :
       IF callOk
         THEN /\ pcA' = [pcA EXCEPT ![e] = "dispatched"]
              /\ errA' = errA
         ELSE /\ pcA' = [pcA EXCEPT ![e] = CatchA.pc]
              /\ errA' = [errA EXCEPT ![e] = @ + CatchA.logged]
  /\ UNCHANGED <<cfg, store, nEvents, ev, pcB, loc, saves, saved, wakes, fault, errB, gw, pureVars>>

\* Lines 128 and 132-142: no response within timeoutMs: callGateway throws,
\* the catch logs, the handler returns.  No request follows.
A_GatewayTimeout(e) ==
  /\ pcA[e] = "calling"
  /\ TimerArmed(gw[e][Len(gw[e])])
  /\ pcA' = [pcA EXCEPT ![e] = CatchA.pc]
  /\ errA' = [errA EXCEPT ![e] = @ + CatchA.logged]
  /\ UNCHANGED <<cfg, store, nEvents, ev, pcB, loc, saves, saved, wakes, fault, errB, gw, pureVars>>

\* Lines 120-142: callGateway returns or throws, a timeout included.
A_Gateway(e) == A_GatewayReply(e) \/ A_GatewayTimeout(e)

(* ------------------------------------------------------------------ *)
(* Specifications.                                                      *)
(* ------------------------------------------------------------------ *)
Step(e) ==
  \/ B_Start(e)
  \/ B_Load(e)
  \/ B_Save(e)
  \/ A_Start(e)
  \/ A_Gateway(e)
  \/ Retire(e)

\* Events are handled one after the other; the configuration may change at
\* any time.
Next ==
  \/ \E e \in Slots : TriggerSeq(e)
  \/ \E e \in Slots : Step(e)
  \/ SetConfig

Spec == Init /\ [][Next]_vars

\* Events may overlap, under a configuration that stays as it is.
NextRace ==
  \/ \E e \in Slots : Trigger(e)
  \/ \E e \in Slots : Step(e)

SpecRace == Init /\ [][NextRace]_vars

\* Overlapping events with consolidation left unconfigured: the requests of
\* spawnMemoryConsolidation alone, handleSessionReset returning at its first
\* gate.
InitGateway ==
  /\ Init
  /\ cfg = None
  /\ store = <<>>

\* The events the session-memory hook is registered for (HOOK.md:
\* command:new), overlapping.
TriggerNew(e) == \E event \in { x \in Events : x.action = "new" } : Deliver(e, event)

NextGateway ==
  \/ \E e \in Slots : TriggerNew(e)
  \/ \E e \in Slots : B_Start(e)
  \/ \E e \in Slots : A_Start(e)
  \/ \E e \in Slots : A_Gateway(e)
  \/ \E e \in Slots : Retire(e)

SpecGateway == InitGateway /\ [][NextGateway]_vars

\* The gateway may stay silent for ever; the timer of a call that has one
\* runs out.  Events one after the other, under one enabled configuration.
InitLive ==
  /\ Init
  /\ cfg = Some(MkConsolidation(Some(TRUE), None, None))
  /\ store = <<>>

NextLive ==
  \/ \E e \in Slots : TriggerSeq(e)
  \/ \E e \in Slots : Step(e)

SpecLive ==
  InitLive /\ [][NextLive]_vars /\ \A e \in Slots : WF_vars(A_GatewayTimeout(e))

(* ------------------------------------------------------------------ *)
(* Prompt rendering alone (memory-consolidation.ts:76-80).              *)
(* ------------------------------------------------------------------ *)
\* The tokens of a configured template: the three placeholders, a
\* placeholder the renderer does not know, and plain text.
TplTokens == {PH_SESSION_ID, PH_SESSION_KEY, PH_DATE, "{unknown}", "text "}

RECURSIVE SeqsUpTo(_, _)
\* The sequences over S of length 1..n.
SeqsUpTo(S, n) ==
  IF n = 0 THEN {}
  ELSE LET shorter == SeqsUpTo(S, n - 1)
       IN { <<x>> : x \in S } \cup shorter
          \cup { Append(t, x) : t \in { u \in shorter : Len(u) = n - 1 }, x \in S }

Templates == SeqsUpTo(TplTokens, MaxTplLen) \cup {CustomPrompt}

\* consolidationConfig.prompt: undefined, empty, or a template.
RenderPrompts == {None, Some(<<>>)} \cup { Some(t) : t \in Templates }

\* Values as the callers build them: session ids, session keys and calendar
\* dates, none of which holds placeholder text or a "$".
RenderInputs ==
  { [prompt |-> p, sessionId |-> sid, sessionKey |-> key, date |-> d] :
      p \in RenderPrompts, sid \in {"abc123", "s1"},
      key \in {"agent:main:default"}, d \in {"2024-06-01"} }

InitRender ==
  /\ HookInit
  /\ cfg = None
  /\ store = <<>>
  /\ rIn \in RenderInputs
  /\ rOut = None
  /\ StreamIdle
  /\ ProbeIdle

\* Lines 76-80 on the drawn input.
Render ==
  /\ rOut = None
  /\ rOut' = Some(RenderPrompt(PromptTemplate(rIn.prompt), rIn.sessionId,
                               rIn.sessionKey, rIn.date))
  /\ UNCHANGED <<hookVars, rIn, streamVars, probeVars>>

NextRender == Render

SpecRender == InitRender /\ [][NextRender]_vars

\* Values of any text: a session id or session key may be the text of a
\* placeholder, or a "$" pattern of String.prototype.replace.  (A value is
\* one token, so a value that holds a placeholder is that placeholder.)
RawSessionIds == {"s1", PH_SESSION_KEY, PH_DATE, "$&"}
RawSessionKeys == {"agent:main:default", PH_DATE}
RenderInputsRaw ==
  { [prompt |-> p, sessionId |-> sid, sessionKey |-> key, date |-> d] :
      p \in RenderPrompts, sid \in RawSessionIds,
      key \in RawSessionKeys, d \in {"2024-06-01"} }

InitRenderRaw ==
  /\ HookInit
  /\ cfg = None
  /\ store = <<>>
  /\ rIn \in RenderInputsRaw
  /\ rOut = None
  /\ StreamIdle
  /\ ProbeIdle

SpecRenderRaw == InitRenderRaw /\ [][NextRender]_vars

(* ------------------------------------------------------------------ *)
(* wrapStreamFnForReasoningConsistency (openai-reasoning-compat.ts).    *)
(* A message is None (null in the messages array) or Some(record), a    *)
(* record being a function from its field names to their values; a      *)
(* payload is None (null) or Some(record) whose messages field is None  *)
(* (no array) or Some(sequence of messages).                            *)
(* ------------------------------------------------------------------ *)
\* openai-reasoning-compat.ts:4.
REASONING_FIELDS == <<"reasoning_content", "reasoning", "reasoning_text">>

ReasoningFieldSet == { REASONING_FIELDS[k] : k \in DOMAIN REASONING_FIELDS }

\* Lines 38-40 and 54-56: the messages the loops do not skip.
IsAssistantMsg(msg) ==
  /\ IsSome(msg)
  /\ "role" \in DOMAIN Get(msg)
  /\ Get(msg).role = "assistant"

\* A detection that takes the field name of any message, whatever its role.
FieldOfMsg_AnyRole(msg) ==
  IF IsSome(msg) /\ \E k \in DOMAIN REASONING_FIELDS : REASONING_FIELDS[k] \in DOMAIN Get(msg)
    THEN LET k == CHOOSE k \in DOMAIN REASONING_FIELDS :
                    /\ REASONING_FIELDS[k] \in DOMAIN Get(msg)
                    /\ \A j \in 1..(k - 1) : REASONING_FIELDS[j] \notin DOMAIN Get(msg)
         IN Some(REASONING_FIELDS[k])
    ELSE None

\* Lines 38-46, one turn of the detection loop: the first of
\* REASONING_FIELDS that is a key of an assistant message, None for a
\* message that is skipped or carries none.
FieldOfMsg(msg) ==
  IF IsAssistantMsg(msg) /\ \E k \in DOMAIN REASONING_FIELDS : REASONING_FIELDS[k] \in DOMAIN Get(msg)
    THEN LET k == CHOOSE k \in DOMAIN REASONING_FIELDS :
                    /\ REASONING_FIELDS[k] \in DOMAIN Get(msg)
                    /\ \A j \in 1..(k - 1) : REASONING_FIELDS[j] \notin DOMAIN Get(msg)
         IN Some(REASONING_FIELDS[k])
    ELSE None

\* Lines 36-48: the messages are scanned in order; the scan stops at the
\* first message that yields a field.
RECURSIVE UsedFieldFrom(_, _)
UsedFieldFrom(messages, i) ==
  IF i > Len(messages) THEN None
  ELSE IF IsSome(FieldOfMsg(messages[i])) THEN FieldOfMsg(messages[i])
  ELSE UsedFieldFrom(messages, i + 1)

\* A patch that fills in reasoning_content when no field is in use.
UsedField_Default(messages) ==
  IF IsSome(UsedFieldFrom(messages, 1)) THEN UsedFieldFrom(messages, 1)
  ELSE Some("reasoning_content")

UsedField(messages) == UsedFieldFrom(messages, 1)

\* A loop that stops after the first message it has filled in.
Backfill_FirstMissing(messages, usedField) ==
  [i \in DOMAIN messages |->
     IF /\ IsAssistantMsg(messages[i]) /\ usedField \notin DOMAIN Get(messages[i])
        /\ \A k \in 1..(i - 1) :
              IsAssistantMsg(messages[k]) => usedField \in DOMAIN Get(messages[k])
       THEN Some(Get(messages[i]) @@ (usedField :> ""))
       ELSE messages[i]]

\* Lines 53-60: record[usedField] = "" on every assistant message that
\* lacks the key; everything else stays.
Backfill(messages, usedField) ==
  [i \in DOMAIN messages |->
     IF IsAssistantMsg(messages[i]) /\ usedField \notin DOMAIN Get(messages[i])
       THEN Some(Get(messages[i]) @@ (usedField :> ""))
       ELSE messages[i]]

\* Lines 30-61.  The payload is patched in place; the value is the payload
\* after the call.
patchReasoningContent(p) ==
  IF ~IsSome(p) THEN p
  ELSE IF ~IsSome(Get(p).messages) THEN p
  ELSE LET messages == Get(Get(p).messages)
           usedField == UsedField(messages)
       IN IF ~IsSome(usedField) THEN p
          ELSE Some([Get(p) EXCEPT !.messages = Some(Backfill(messages, Get(usedField)))])

\* The caller's callback first, the patch after it.
nextOnPayload_PrevFirst(p, hasPrev, seen) ==
  [payload |-> patchReasoningContent(p),
   seen |-> IF hasPrev THEN Append(seen, p) ELSE seen]

\* Lines 18-22: patchReasoningContent(payload); prevOnPayload?.(payload).
nextOnPayload(p, hasPrev, seen) ==
  LET patched == patchReasoningContent(p)
  IN [payload |-> patched,
      seen |-> IF hasPrev THEN Append(seen, patched) ELSE seen]

\* The payloads a stream function builds.
BaseMsg(role) == [role |-> role, content |-> "c"]
WithFields(record, fields, value) == record @@ [f \in fields |-> value]
AssistantMsgs ==
  { WithFields(BaseMsg("assistant"), F, "think") : F \in SUBSET ReasoningFieldSet }
    \cup { WithFields(BaseMsg("assistant"), {"reasoning_content"}, "") }
OtherMsgs ==
  { BaseMsg("user"), WithFields(BaseMsg("user"), {"reasoning"}, "think") }
Messages == {None} \cup { Some(m) : m \in AssistantMsgs \cup OtherMsgs }
MkPayload(messages) == Some([model |-> "kimi-k2", messages |-> messages])
Payloads ==
  {None, MkPayload(None), MkPayload(Some(<<>>))}
    \cup { MkPayload(Some(ms)) : ms \in SeqsUpTo(Messages, MaxMsgs) }

\* Lines 17-26: the wrapped function is called with the caller's options,
\* with or without an onPayload, and calls streamFn with nextOnPayload in
\* its place.
InitReasoning ==
  /\ HookInit
  /\ cfg = None
  /\ store = <<>>
  /\ rIn = NoRenderInput
  /\ rOut = None
  /\ payload \in Payloads
  /\ payload0 = payload
  /\ prevOnPayload \in BOOLEAN
  /\ prevSeen = <<>>
  /\ nEmit = 0
  /\ ProbeIdle

\* The stream function calls options.onPayload(payload): lines 19-22.
Emit ==
  /\ nEmit < MaxEmit
  /\ LET r == nextOnPayload(payload, prevOnPayload, prevSeen)
     IN /\ payload' = r.payload
        /\ prevSeen' = r.seen
  /\ nEmit' = nEmit + 1
  /\ UNCHANGED <<hookVars, renderVars, payload0, prevOnPayload, probeVars>>

NextReasoning == Emit

SpecReasoning == InitReasoning /\ [][NextReasoning]_vars

(* ------------------------------------------------------------------ *)
(* probeFeishu (extensions/feishu/src/probe.ts:14-72).                  *)
(* ------------------------------------------------------------------ *)
\* Line 15: !creds?.appId || !creds?.appSecret (an empty string is falsy).
MissingCreds(creds) ==
  \/ ~IsSome(creds)
  \/ Get(creds).appId = <<>>
  \/ Get(creds).appSecret = <<>>

\* An entry still served at the very millisecond it expires.
NotExpired_Inclusive(cached, now) == IsSome(cached) /\ Get(cached).expiresAt >= now

\* Line 24: !!cached && cached.expiresAt > Date.now().
NotExpired(cached, now) == IsSome(cached) /\ Get(cached).expiresAt > now

\* FeishuProbeResult: ok, and appId, botName, botOpenId, error where set.
MkResult(ok, appId, botName, botOpenId, error) ==
  [ok |-> ok, appId |-> appId, botName |-> botName, botOpenId |-> botOpenId,
   error |-> error]

\* Lines 16-19.
MissingResult ==
  MkResult(FALSE, None, None, None, Some(<<"missing credentials (appId, appSecret)">>))

\* Lines 26-31.
CachedResult(creds, cached) ==
  MkResult(TRUE, Some(creds.appId), cached.botName, cached.botOpenId, None)

\* What client.request resolves to: the response's code, msg, bot and
\* data.bot (lines 38-52).
TheBot == [bot_name |-> Some("openclaw-bot"), open_id |-> Some("ou_1")]
MkResponse(code, msg, bot, dataBot) ==
  [code |-> code, msg |-> msg, bot |-> bot, dataBot |-> dataBot]
ProbeResponses ==
  { MkResponse(0, None, Some(TheBot), None),
    MkResponse(0, None, None, Some(TheBot)),
    MkResponse(0, None, None, None),
    MkResponse(99991663, Some("tenant token invalid"), None, None),
    MkResponse(99991663, None, None, None) }

\* Line 52: response.bot || response.data?.bot.
BotOf(response) == IF IsSome(response.bot) THEN response.bot ELSE response.dataBot
\* Lines 54-55 and 62-63: bot?.bot_name, bot?.open_id.
BotNameOf(bot) == IF IsSome(bot) THEN Get(bot).bot_name ELSE None
BotOpenIdOf(bot) == IF IsSome(bot) THEN Get(bot).open_id ELSE None

\* An entry written for every response, whatever its code.
CacheAfter_AnyCode(cache, cacheKey, response, now) ==
  [cache EXCEPT ![cacheKey] =
     Some([botName |-> BotNameOf(BotOf(response)),
           botOpenId |-> BotOpenIdOf(BotOf(response)),
           expiresAt |-> now + PROBE_CACHE_TTL_MS])]

\* Lines 44-57: the cache after a response: untouched for a code other
\* than 0, else the key's entry set, with expiresAt from the clock read at
\* that moment.
CacheAfter(cache, cacheKey, response, now) ==
  IF response.code # 0 THEN cache
  ELSE [cache EXCEPT ![cacheKey] =
          Some([botName |-> BotNameOf(BotOf(response)),
                botOpenId |-> BotOpenIdOf(BotOf(response)),
                expiresAt |-> now + PROBE_CACHE_TTL_MS])]

\* Lines 44-50 and 59-64.
ResultOf(creds, response) ==
  IF response.code # 0
    THEN MkResult(FALSE, Some(creds.appId), None, None,
                  Some(<<"API error: ",
                         IF IsSome(response.msg) THEN Get(response.msg)
                         ELSE <<"code ", response.code>>>>))
    ELSE MkResult(TRUE, Some(creds.appId), BotNameOf(BotOf(response)),
                  BotOpenIdOf(BotOf(response)), None)

\* Lines 65-71: the catch of the try around client creation and request.
CaughtResult(creds) == MkResult(FALSE, Some(creds.appId), None, None, Some(<<"err.message">>))

\* Where a call of probeFeishu has returned: at line 16 ("missing"), 26
\* ("cached"), 45 ("apiError"), 59 ("probed") or 66 ("caught").
TerminalP == {"missing", "cached", "apiError", "probed", "caught"}

\* Lines 14-38: a call of probeFeishu up to its first await: the
\* credentials gate, the cache lookup, then createFeishuClient (which may
\* throw) and the request.  Calls take the lowest free slot.
ProbeCall(p) ==
  /\ pPc[p] = "idle"
  /\ \A q \in ProbeSlots : pPc[q] = "idle" => p <= q
  /\ nProbes < MaxProbes
  /\ nProbes' = nProbes + 1
  /\ \E creds \in ProbeCreds, clientOk \in BOOLEAN :
       /\ pCreds' = [pCreds EXCEPT ![p] = creds]
       /\ IF MissingCreds(creds)
            THEN /\ pResult' = [pResult EXCEPT ![p] = Some(MissingResult)]
                 /\ pPc' = [pPc EXCEPT ![p] = "missing"]
                 /\ apiCalls' = apiCalls
            ELSE LET cacheKey == CacheKey(Get(creds))
                     cached == probeCache[cacheKey]
                 IN IF NotExpired(cached, clock)
                      THEN /\ pResult' = [pResult EXCEPT ![p] =
                                            Some(CachedResult(Get(creds), Get(cached)))]
                           /\ pPc' = [pPc EXCEPT ![p] = "cached"]
                           /\ apiCalls' = apiCalls
                      ELSE IF clientOk
                      THEN /\ pResult' = pResult
                           /\ pPc' = [pPc EXCEPT ![p] = "requesting"]
                           /\ apiCalls' = apiCalls + 1
                      ELSE /\ pResult' = [pResult EXCEPT ![p] = Some(CaughtResult(Get(creds)))]
                           /\ pPc' = [pPc EXCEPT ![p] = "caught"]
                           /\ apiCalls' = apiCalls
  /\ UNCHANGED <<hookVars, renderVars, streamVars, probeCache, clock, nTicks, storedAt>>

\* Lines 38-64: the request resolves; lines 65-71: it rejects.
ProbeResponse(p) ==
  /\ pPc[p] = "requesting"
  /\ LET creds == Get(pCreds[p])
         cacheKey == CacheKey(creds)
     IN \/ \E response \in ProbeResponses :
             /\ probeCache' = CacheAfter(probeCache, cacheKey, response, clock)
             /\ storedAt' = IF response.code = 0
                               THEN [storedAt EXCEPT ![cacheKey] = clock] ELSE storedAt
             /\ pResult' = [pResult EXCEPT ![p] = Some(ResultOf(creds, response))]
             /\ pPc' = [pPc EXCEPT ![p] = IF response.code # 0 THEN "apiError" ELSE "probed"]
        \/ /\ pResult' = [pResult EXCEPT ![p] = Some(CaughtResult(creds))]
           /\ pPc' = [pPc EXCEPT ![p] = "caught"]
           /\ UNCHANGED <<probeCache, storedAt>>
  /\ UNCHANGED <<hookVars, renderVars, streamVars, clock, nTicks, pCreds, nProbes, apiCalls>>

\* The caller has the result; the slot is free for the next call.
ProbeReturn(p) ==
  /\ pPc[p] \in TerminalP
  /\ pPc' = [pPc EXCEPT ![p] = "idle"]
  /\ pCreds' = [pCreds EXCEPT ![p] = None]
  /\ pResult' = [pResult EXCEPT ![p] = None]
  /\ UNCHANGED <<hookVars, renderVars, streamVars, probeCache, clock, nTicks, nProbes, apiCalls, storedAt>>

\* Time passes between and during probes.
Tick ==
  /\ nTicks < MaxTicks
  /\ nTicks' = nTicks + 1
  /\ clock' = clock + TickMs
  /\ UNCHANGED <<hookVars, renderVars, streamVars, probeCache, pPc, pCreds, pResult, nProbes, apiCalls, storedAt>>

NextProbe ==
  \/ \E p \in ProbeSlots : ProbeCall(p)
  \/ \E p \in ProbeSlots : ProbeResponse(p)
  \/ \E p \in ProbeSlots : ProbeReturn(p)
  \/ Tick

\* The probe alone: no lifecycle event, consolidation unconfigured.
InitProbe ==
  /\ Init
  /\ cfg = None
  /\ store = <<>>

SpecProbe == InitProbe /\ [][NextProbe]_vars

(* ------------------------------------------------------------------ *)
(* Properties.                                                          *)
(* ------------------------------------------------------------------ *)
JobsWithId(jobs, jobId) == SelectSeq(jobs, LAMBDA j : j.id = jobId)
CountJobs(jobs, jobId) == Len(JobsWithId(jobs, jobId))
HasToken(text, token) == \E i \in DOMAIN text : text[i] = token

\* Every id a consolidation job may carry.
AllJobIds == { JobId(sid) : sid \in SessionIds \cup {UnknownId, EmptyId} } \cup {OtherJob.id}

\* The payload scheduleConsolidationJob was called to schedule.
CallPayload(e) ==
  [kind |-> "agentTurn", message |-> loc[e].prompt, timeoutSeconds |-> loc[e].timeoutSeconds]

\* C1: with events handled one after the other, the store never holds two
\* jobs of one id, and once an invocation's save has returned the store holds
\* exactly one job "memory-consolidation-"+sessionId, which carries the
\* payload of that (the latest) call.
C1_IdempotentReplacement ==
  /\ \A id \in AllJobIds : CountJobs(store, id) <= 1
  /\ \A e \in Slots :
       saved[e] =>
         /\ CountJobs(store, JobId(loc[e].sessionId)) = 1
         /\ JobsWithId(store, JobId(loc[e].sessionId))[1].payload = CallPayload(e)

\* C1's case: a second call for a session id whose job, with another
\* payload, was in the loaded store, has saved.
C1_Witness ==
  \E e \in Slots :
    /\ saved[e]
    /\ CountJobs(loc[e].loaded, JobId(loc[e].sessionId)) = 1
    /\ JobsWithId(loc[e].loaded, JobId(loc[e].sessionId))[1].payload # CallPayload(e)

\* The event of the slot's invocation, and its previous session entry.
EventOf(e) == Get(ev[e])
PrevOf(e) == EventOf(e).context.previousSessionEntry

\* The side effects of the handlers of the slot's event so far.
NoSideEffects(e) == saves[e] = 0 /\ wakes[e] = 0 /\ gw[e] = <<>>

\* C2 as claimed: under a disabled (or absent) consolidation configuration no
\* handler of an event writes the store, wakes the scheduler or calls the
\* gateway.  (Checked where the configuration does not change.)
C2_DisabledNoEffects ==
  ~ConfigEnabled(cfg) => \A e \in InFlight : NoSideEffects(e)

\* The event carries no previous session to consolidate: no entry, or an
\* entry whose id is empty or "unknown".
NoPriorSession(e) ==
  \/ ~IsSome(PrevOf(e))
  \/ Get(PrevOf(e)).sessionId \in {EmptyId, UnknownId}

\* C3 as claimed: an event without a previous session (no entry, or the id
\* empty or "unknown") has no side effect, whatever else its context holds.
C3_NoPriorNoEffects ==
  \A e \in InFlight : NoPriorSession(e) => NoSideEffects(e)

\* C4: a throw of loadCronStore, saveCronStore or callGateway never leaves
\* the handler: the handler returns, having logged exactly one error, and
\* after a failed load or save nothing else was done (no wake signal).
C4_FailureIsolation ==
  \A e \in Slots :
    /\ pcB[e] # "threw" /\ pcA[e] # "threw"
    /\ fault[e] # "none" => pcB[e] = "failed" /\ errB[e] = 1
    /\ fault[e] \in {"load", "save"} => wakes[e] = 0 /\ ~saved[e]
    /\ fault[e] = "none" => errB[e] = 0
    /\ pcA[e] = "failed" => errA[e] = 1 /\ Len(gw[e]) = 1
    /\ pcA[e] # "failed" => errA[e] = 0

\* C4's case: the store save and the gateway call of one event both threw,
\* and both handlers have returned.
C4_Witness ==
  \E e \in Slots : fault[e] = "save" /\ pcB[e] = "failed" /\ pcA[e] = "failed"

\* C5 as claimed: no event is dispatched by both strategies (a job persisted
\* and a gateway call issued).
C5_OneStrategy ==
  \A e \in Slots : ~(saved[e] /\ gw[e] # <<>>)

\* C6 as claimed: when two invocations for distinct session ids have both
\* saved, the store holds the jobs of both.
C6_NoLostUpdate ==
  \A e1, e2 \in Slots :
    (e1 # e2 /\ saved[e1] /\ saved[e2] /\ loc[e1].sessionId # loc[e2].sessionId)
      => /\ CountJobs(store, JobId(loc[e1].sessionId)) = 1
         /\ CountJobs(store, JobId(loc[e2].sessionId)) = 1

\* C7: once the save of a Strategy B invocation for previous session id s has
\* returned, the store holds exactly one job "memory-consolidation-"+s; it is
\* enabled, scheduled "at", targets an isolated session, wakes "now", has
\* state.nextRunAtMs = createdAtMs, and, rendered from the default template,
\* a payload message that contains s.
C7_ScheduledJob ==
  \A e \in Slots :
    saved[e] =>
      LET s == Get(PrevOf(e)).sessionId
          jobs == JobsWithId(store, JobId(s))
      IN /\ Len(jobs) = 1
         /\ jobs[1].enabled = TRUE
         /\ jobs[1].schedule.kind = "at"
         /\ jobs[1].sessionTarget = "isolated"
         /\ jobs[1].wakeMode = "now"
         /\ jobs[1].state.nextRunAtMs = jobs[1].createdAtMs
         /\ loc[e].promptTemplate = DEFAULT_PROMPT => HasToken(jobs[1].payload.message, s)

\* C7's case: the end-to-end scenario: a "new" event for previous session s1
\* with its transcript file, the default template, and the job saved.
C7_Witness ==
  \E e \in Slots :
    /\ saved[e]
    /\ EventOf(e).action = "new"
    /\ PrevOf(e) = Some(MkEntry("s1", SessionFile("s1")))
    /\ loc[e].promptTemplate = DEFAULT_PROMPT
    /\ CountJobs(store, JobId("s1")) = 1

\* The reference rendering: each token on its own, in one pass.
RefToken(token, sessionId, sessionKey, date) ==
  CASE token = PH_SESSION_ID -> sessionId
    [] token = PH_SESSION_KEY -> sessionKey
    [] token = PH_DATE -> date
    [] OTHER -> token

RefRender(prompt, sessionId, sessionKey, date) ==
  LET template == IF prompt = None \/ prompt = Some(<<>>) THEN DEFAULT_PROMPT ELSE Get(prompt)
  IN [i \in DOMAIN template |-> RefToken(template[i], sessionId, sessionKey, date)]

\* C8: the rendered prompt is the template (the built-in one when none or an
\* empty one is configured) with every {sessionId}, {sessionKey} and {date}
\* replaced by the session id, the session key and the date, and every other
\* token, {unknown} included, as it was.
C8_RenderMatchesReference ==
  IsSome(rOut) => Get(rOut) = RefRender(rIn.prompt, rIn.sessionId, rIn.sessionKey, rIn.date)

\* C8's case: the template "S={sessionId} K={sessionKey} D={date}" rendered
\* to "S=abc123 K=agent:main:default D=2024-06-01".
C8_Witness ==
  /\ rIn.prompt = Some(CustomPrompt)
  /\ rOut = Some(<<"S=", "abc123", " K=", "agent:main:default", " D=", "2024-06-01">>)

\* C9: an invocation wakes the scheduler at most once and only after its own
\* store write has succeeded: never when it stopped at the disabled
\* configuration or the missing session, nor when the load or the save threw.
C9_WakeAfterSave ==
  \A e \in Slots :
    /\ wakes[e] <= 1
    /\ wakes[e] = 1 => saved[e]
    /\ pcB[e] \in {"start", "loading", "saving", "disabled", "noprior"} => wakes[e] = 0
    /\ fault[e] \in {"load", "save"} => wakes[e] = 0

\* C9's case: an invocation that saved and then woke the scheduler.
C9_Witness ==
  \E e \in Slots : wakes[e] = 1 /\ saved[e] /\ pcB[e] = "dispatched"

\* C10 as claimed: "Failed to schedule" is logged only when the load or the
\* save threw, never after the job has been persisted.
C10_FailedOnlyBeforePersist ==
  \A e \in Slots : (pcB[e] = "failed" \/ errB[e] > 0) => ~saved[e]

\* C11: a Strategy A invocation that has called the gateway ends in
\* Dispatched or in Failed, also when the gateway never responds (the call's
\* timer then ends it as a logged failure), and it never sends a second
\* request.
C11_GatewayCallEnds ==
  /\ [](\A e \in Slots : Len(gw[e]) <= 1)
  /\ [](\A e \in Slots : pcA[e] = "failed" => errA[e] = 1)
  /\ \A e \in Slots : (pcA[e] = "calling") ~> (pcA[e] \in {"dispatched", "failed"})

\* C11's case: a gateway call is waiting for its response.
C11_Witness ==
  \E e \in Slots : pcA[e] = "calling" /\ Len(gw[e]) = 1 /\ gw[e][1].timeoutMs = 600000

\* C12: no automatic retry.  One invocation calls saveCronStore at most once
\* and callGateway at most once; a failure before the save leaves no save
\* attempt and no wake signal, a failed save leaves no wake signal, and once
\* an invocation has failed it stays failed: no further store write, save
\* attempt, wake signal or gateway request comes from it.
C12_NoRetryState ==
  \A e \in Slots :
    /\ saves[e] <= 1 /\ wakes[e] <= 1 /\ Len(gw[e]) <= 1
    /\ errB[e] <= 1 /\ errA[e] <= 1
    /\ fault[e] = "load" => saves[e] = 0 /\ wakes[e] = 0 /\ ~saved[e]
    /\ fault[e] = "save" => saves[e] = 1 /\ wakes[e] = 0 /\ ~saved[e]

C12_NoRetryStep ==
  \A e \in Slots :
    /\ pcB[e] = "failed" /\ ev'[e] = ev[e] =>
          /\ pcB'[e] = "failed"
          /\ store' = store
          /\ saves'[e] = saves[e] /\ wakes'[e] = wakes[e] /\ saved'[e] = saved[e]
    /\ pcA[e] = "failed" /\ ev'[e] = ev[e] =>
          /\ pcA'[e] = "failed"
          /\ gw'[e] = gw[e]

C12_NoRetry == []C12_NoRetryState /\ [][C12_NoRetryStep]_vars

\* C12's case: one event whose save failed in Strategy B and whose gateway
\* call failed in Strategy A.
C12_Witness ==
  \E e \in Slots :
    /\ pcB[e] = "failed" /\ fault[e] = "save" /\ saves[e] = 1
    /\ pcA[e] = "failed" /\ Len(gw[e]) = 1

\* C13: when the save of a Strategy B invocation has failed, the persisted
\* store holds exactly the jobs it held before the invocation (the jobs the
\* invocation loaded); a job scheduled earlier for the same session is still
\* there.
C13_SaveFailureLosesNoJob ==
  \A e \in Slots :
    fault[e] = "save" =>
      /\ store = loc[e].loaded
      /\ CountJobs(store, JobId(loc[e].sessionId)) =
           CountJobs(loc[e].loaded, JobId(loc[e].sessionId))

\* C13's case: the save failed for a session that already had a job in the
\* store, next to another job.
C13_Witness ==
  \E e \in Slots :
    /\ fault[e] = "save"
    /\ CountJobs(loc[e].loaded, JobId(loc[e].sessionId)) = 1
    /\ Len(loc[e].loaded) = 2
    /\ loc[e].jobs # loc[e].loaded

\* C14: the configuration is read again for every event.  The step in which
\* an invocation reads it ends in "disabled" exactly when consolidation is
\* off in the configuration of that moment, whatever earlier events saw, and
\* an invocation that goes on takes its template and timeout from that
\* configuration; an invocation handled while disabled schedules nothing.
C14_ReadStep ==
  \A e \in Slots :
    pcB[e] = "start" /\ pcB'[e] # "start" =>
      /\ pcB'[e] = "disabled" <=> ~ConfigEnabled(cfg)
      /\ pcB'[e] = "loading" =>
            /\ loc'[e].promptTemplate = PromptTemplate(Get(cfg).prompt)
            /\ loc'[e].timeoutSeconds = TimeoutSeconds(Get(cfg))

C14_ConfigReadPerEvent ==
  /\ [][C14_ReadStep]_vars
  /\ [](\A e \in Slots : pcB[e] = "disabled" => saves[e] = 0 /\ wakes[e] = 0 /\ ~saved[e])

\* C14's case: an event handled while disabled, after an earlier event was
\* handled while enabled and scheduled its job; the store keeps that job and
\* gets nothing new.
C14_Witness ==
  \E e \in Slots :
    /\ nEvents = 2
    /\ pcB[e] = "disabled" /\ HasSessionId(PrevOf(e))
    /\ \E i \in DOMAIN store : store[i].id[1] = "memory-consolidation-"

\* C15: the side effects of the trigger do not depend on the action.  Two
\* events under one configuration that carry the same session key and the
\* same context, one command:new and one command:reset, whose handlers have
\* all returned: either both were acted on by handleSessionReset or neither,
\* and either both led to a gateway request or neither.
C15_ActionIndependent ==
  \A e \in Slots, f \in Slots :
    /\ IsSome(ev[e]) /\ IsSome(ev[f])
    /\ EventOf(e).context = EventOf(f).context
    /\ EventOf(e).sessionKey = EventOf(f).sessionKey
    /\ pcB[e] \in TerminalB /\ pcB[f] \in TerminalB
    /\ pcA[e] \in TerminalA /\ pcA[f] \in TerminalA
    => /\ pcB[e] \in {"disabled", "noprior"} <=> pcB[f] \in {"disabled", "noprior"}
       /\ Len(gw[e]) = Len(gw[f])

\* The gateway requests of the invocations in flight, each with the slot of
\* its invocation.
Requests == UNION { { <<e, gw[e][i]>> : i \in DOMAIN gw[e] } : e \in Slots }
IsUUID(v) == Len(v) = 4 /\ v[1] = "uuid"

\* C16: every gateway request of Strategy A has method "agent", deliver
\* false and timeoutMs 600000; its session key carries the marker
\* "memory-consolidation" followed by a random component; and any two
\* requests differ in their session keys and in their idempotency keys, also
\* when they come from resets of one and the same session.
C16_GatewayRequests ==
  /\ \A r \in Requests :
        /\ r[2].method = "agent"
        /\ r[2].params.deliver = FALSE
        /\ r[2].timeoutMs = 600000
        /\ r[2].params.sessionKey[1] = "agent:"
        /\ r[2].params.sessionKey[3] = ":subagent:memory-consolidation:"
        /\ IsUUID(r[2].params.sessionKey[4])
        /\ IsUUID(r[2].params.idempotencyKey)
  /\ \A r \in Requests, q \in Requests :
        r # q => /\ r[2].params.sessionKey # q[2].params.sessionKey
                 /\ r[2].params.idempotencyKey # q[2].params.idempotencyKey

\* C16's case: two requests, from two resets that name the same previous
\* session.
C16_Witness ==
  \E e \in Slots, f \in Slots :
    /\ e # f
    /\ Len(gw[e]) = 1 /\ Len(gw[f]) = 1
    /\ EventOf(e).context = EventOf(f).context
    /\ gw[e][1].params.message = gw[f][1].params.message

\* The messages of a payload that has a messages array.
HasMessages(p) == IsSome(p) /\ IsSome(Get(p).messages)
MsgsOf(p) == IF HasMessages(p) THEN Get(Get(p).messages) ELSE <<>>

\* The assistant messages that carry a reasoning field, and the field of the
\* first of them (the earliest of REASONING_FIELDS when it carries several).
Carriers(ms) ==
  { i \in DOMAIN ms : IsAssistantMsg(ms[i]) /\ DOMAIN Get(ms[i]) \cap ReasoningFieldSet # {} }
DetectedField(ms) ==
  LET i == CHOOSE c \in Carriers(ms) : \A d \in Carriers(ms) : c <= d
      k == CHOOSE c \in DOMAIN REASONING_FIELDS :
             /\ REASONING_FIELDS[c] \in DOMAIN Get(ms[i])
             /\ \A d \in DOMAIN REASONING_FIELDS :
                   REASONING_FIELDS[d] \in DOMAIN Get(ms[i]) => c <= d
  IN REASONING_FIELDS[k]

\* C17: reasoning backfill.  When the payload as built has an assistant
\* message with a reasoning field, then after onPayload every assistant
\* message has the field detected on the first such message, with value ""
\* where it was missing; the fields a message had keep their values, and
\* every other message (and the rest of the payload) is as it was.
C17_Backfill ==
  nEmit >= 1 /\ Carriers(MsgsOf(payload0)) # {} =>
    LET old == MsgsOf(payload0)
        new == MsgsOf(payload)
        f == DetectedField(old)
    IN /\ HasMessages(payload)
       /\ Get(payload).model = Get(payload0).model
       /\ Len(new) = Len(old)
       /\ \A i \in DOMAIN old :
            IF IsAssistantMsg(old[i])
              THEN /\ IsSome(new[i])
                   /\ DOMAIN Get(new[i]) = DOMAIN Get(old[i]) \cup {f}
                   /\ \A key \in DOMAIN Get(old[i]) : Get(new[i])[key] = Get(old[i])[key]
                   /\ f \notin DOMAIN Get(old[i]) => Get(new[i])[f] = ""
              ELSE new[i] = old[i]

\* C17's case: the "reasoning" variant is in use, a message before the
\* first carrier lacked it and was filled in.
C17_Witness ==
  /\ nEmit >= 1
  /\ Carriers(MsgsOf(payload0)) # {}
  /\ DetectedField(MsgsOf(payload0)) = "reasoning"
  /\ \E i \in DOMAIN MsgsOf(payload0) :
        /\ \A c \in Carriers(MsgsOf(payload0)) : i < c
        /\ IsAssistantMsg(MsgsOf(payload0)[i])
        /\ Get(MsgsOf(payload)[i]).reasoning = ""

\* C18: when no assistant message of the payload carries a reasoning field,
\* or the payload has no messages array (or is null), onPayload leaves the
\* payload as it was built.
C18_NoFieldNoChange ==
  nEmit >= 1 /\ Carriers(MsgsOf(payload0)) = {} => payload = payload0

\* C18's case: an assistant message without a reasoning field next to a
\* user message that has one; nothing was added.
C18_Witness ==
  /\ nEmit >= 1
  /\ Carriers(MsgsOf(payload0)) = {}
  /\ \E i \in DOMAIN MsgsOf(payload0) : IsAssistantMsg(MsgsOf(payload0)[i])
  /\ \E i \in DOMAIN MsgsOf(payload0) :
        /\ IsSome(MsgsOf(payload0)[i])
        /\ ~IsAssistantMsg(MsgsOf(payload0)[i])
        /\ "reasoning" \in DOMAIN Get(MsgsOf(payload0)[i])

\* A payload to which the backfill has been applied.
Backfilled(p) ==
  Carriers(MsgsOf(p)) # {} =>
    \A i \in DOMAIN MsgsOf(p) :
      IsAssistantMsg(MsgsOf(p)[i]) => DetectedField(MsgsOf(p)) \in DOMAIN Get(MsgsOf(p)[i])

\* C19: the caller's onPayload is chained.  It has been called once for
\* each payload the stream function emitted, each time with a payload to
\* which the backfill had been applied, the last time with the payload as
\* it is now.
C19_PrevChained ==
  prevOnPayload =>
    /\ Len(prevSeen) = nEmit
    /\ \A i \in DOMAIN prevSeen : Backfilled(prevSeen[i])
    /\ nEmit >= 1 => prevSeen[nEmit] = payload

\* C19's case: the caller's onPayload received a payload that the backfill
\* had changed.
C19_Witness ==
  /\ prevOnPayload
  /\ nEmit = 1
  /\ Len(prevSeen) = 1
  /\ prevSeen[1] # payload0

\* C20: scheduling a consolidation job for session id s changes nothing
\* else in the store.  After the save the store is the loaded jobs without
\* the job of id "memory-consolidation-"+s, unchanged and in their order,
\* followed by the new job; the jobs of other sessions stay.
C20_ScheduleFrame ==
  \A e \in Slots :
    saved[e] =>
      LET jobId == JobId(loc[e].sessionId)
          others == SelectSeq(loc[e].loaded, LAMBDA j : j.id # jobId)
      IN /\ Len(store) = Len(others) + 1
         /\ SubSeq(store, 1, Len(others)) = others
         /\ store[Len(store)].id = jobId
         /\ store[Len(store)].payload.message = loc[e].prompt

\* C20's case: a job was scheduled for s2 while the store held the job of
\* s1 and another writer's job; both are still there, before the new job.
C20_Witness ==
  \E e \in Slots :
    /\ saved[e]
    /\ loc[e].sessionId = "s2"
    /\ Len(store) = 3
    /\ store[1] = OtherJob
    /\ store[2].id = JobId("s1")
    /\ store[3].id = JobId("s2")

\* C21: substitution is literal and simultaneous.  The rendered prompt is
\* the template with its placeholders replaced in one pass: at every
\* {sessionId} of the template stands the session id as it is, at every
\* {sessionKey} the session key as it is, also when that text is itself a
\* placeholder.
C21_LiteralSimultaneous ==
  IsSome(rOut) =>
    LET template == PromptTemplate(rIn.prompt)
        out == Get(rOut)
    IN /\ out = RefRender(rIn.prompt, rIn.sessionId, rIn.sessionKey, rIn.date)
       /\ \A i \in DOMAIN template :
            /\ template[i] = PH_SESSION_ID => out[i] = rIn.sessionId
            /\ template[i] = PH_SESSION_KEY => out[i] = rIn.sessionKey

\* The entry of a call's credentials that the cache holds and that has not
\* expired at the present clock.
FreshEntry(creds) ==
  /\ probeCache[CacheKey(creds)] # None
  /\ Get(probeCache[CacheKey(creds)]).expiresAt > clock

\* C22, the step of a call with complete credentials: it is answered from
\* the cache, with the entry's bot and without a request to the API, exactly
\* when the cache holds an entry for appId:appSecret whose expiresAt is
\* later than the clock; the entry served was stored less than
\* PROBE_CACHE_TTL_MS ago; a call not answered from the cache goes to the
\* API (unless creating the client throws).
C22_CallStep ==
  \A p \in ProbeSlots :
    pPc[p] = "idle" /\ pPc'[p] # "idle" /\ ~MissingCreds(pCreds'[p]) =>
      LET creds == Get(pCreds'[p])
          cacheKey == CacheKey(creds)
      IN /\ pPc'[p] = "cached" <=> FreshEntry(creds)
         /\ pPc'[p] = "cached" =>
               /\ apiCalls' = apiCalls
               /\ Get(pResult'[p]).ok
               /\ Get(pResult'[p]).botName = Get(probeCache[cacheKey]).botName
               /\ Get(pResult'[p]).botOpenId = Get(probeCache[cacheKey]).botOpenId
               /\ clock - storedAt[cacheKey] < PROBE_CACHE_TTL_MS
         /\ pPc'[p] # "cached" =>
               \/ pPc'[p] = "requesting" /\ apiCalls' = apiCalls + 1
               \/ pPc'[p] = "caught" /\ apiCalls' = apiCalls

\* An entry expires PROBE_CACHE_TTL_MS after the probe that stored it.
C22_Entries ==
  \A k \in CacheKeys :
    probeCache[k] # None =>
      /\ Get(probeCache[k]).expiresAt = storedAt[k] + PROBE_CACHE_TTL_MS
      /\ storedAt[k] <= clock

C22_ProbeCache == []C22_Entries /\ [][C22_CallStep]_vars

\* C22's case: a call answered from the cache some time after the probe
\* that stored the entry, one request having been made for two calls.
C22_Witness ==
  \E p \in ProbeSlots :
    /\ pPc[p] = "cached"
    /\ nProbes = 2 /\ apiCalls = 1
    /\ clock = storedAt[CacheKey(Get(pCreds[p]))] + TickMs
    /\ Get(pResult[p]).botName = Some("openclaw-bot")

\* C23, the state part: a call that has returned resolved to a result, with
\* ok false and an error text after missing credentials, a response code
\* other than 0 or a thrown error, and with ok true otherwise; a call is
\* nowhere else than idle, waiting for the response, or returned.
C23_Results ==
  \A p \in ProbeSlots :
    /\ pPc[p] \in {"idle", "requesting"} \cup TerminalP
    /\ pPc[p] \in TerminalP =>
          /\ IsSome(pResult[p])
          /\ Get(pResult[p]).ok <=> pPc[p] \in {"cached", "probed"}
          /\ ~Get(pResult[p]).ok => IsSome(Get(pResult[p]).error)
    /\ pPc[p] = "missing" => MissingCreds(pCreds[p])

\* C23, the step part: the step in which a call returns a failure leaves
\* the cache as it was, and the cache changes only in the step in which a
\* call gets a response with code 0.
C23_FailureStep ==
  /\ \A p \in ProbeSlots :
        pPc[p] \notin TerminalP /\ pPc'[p] \in {"missing", "apiError", "caught"} =>
          probeCache' = probeCache
  /\ probeCache' # probeCache =>
        \E p \in ProbeSlots :
          /\ pPc[p] = "requesting" /\ pPc'[p] = "probed"
          /\ Get(pResult'[p]).ok

C23_NoThrowNoCachedFailure == []C23_Results /\ [][C23_FailureStep]_vars

\* C23's case: the API answered with an error code to a probe whose
\* credentials have an (expired) entry in the cache; the entry is still
\* there.
C23_Witness ==
  \E p \in ProbeSlots :
    /\ pPc[p] = "apiError"
    /\ probeCache[CacheKey(Get(pCreds[p]))] # None
    /\ Get(probeCache[CacheKey(Get(pCreds[p]))]).expiresAt <= clock

\* C24: the backfill is idempotent.  When onPayload is called again with a
\* payload it has already patched, that call changes nothing in it.
C24_PatchAgainStep == nEmit >= 1 /\ nEmit' = nEmit + 1 => payload' = payload

C24_Idempotent == [][C24_PatchAgainStep]_vars

\* C24's case: a payload patched twice whose assistant messages carried
\* different reasoning fields, one of them none, and which the first patch
\* changed.
C24_Witness ==
  /\ nEmit = 2
  /\ payload # payload0
  /\ \E i \in DOMAIN MsgsOf(payload0), j \in DOMAIN MsgsOf(payload0) :
        /\ i < j
        /\ IsAssistantMsg(MsgsOf(payload0)[i]) /\ IsAssistantMsg(MsgsOf(payload0)[j])
        /\ DOMAIN Get(MsgsOf(payload0)[i]) \cap ReasoningFieldSet = {"reasoning_text"}
        /\ DOMAIN Get(MsgsOf(payload0)[j]) \cap ReasoningFieldSet = {"reasoning_content"}
  /\ \E i \in DOMAIN MsgsOf(payload0) :
        /\ IsAssistantMsg(MsgsOf(payload0)[i])
        /\ DOMAIN Get(MsgsOf(payload0)[i]) \cap ReasoningFieldSet = {}

====
